---- MODULE Spec2Model ----
(***************************************************************************)
(* Model of audio-frequency (src/index.js): getAudioFrequencyData,         *)
(* AudioData.fromFile, AudioData.getFrequencyData and FrequencyData.       *)
(*                                                                         *)
(* Time is measured in sample frames (seconds * sampleRate), so the audio  *)
(* duration is its length and sampleTimeLength is a whole number of        *)
(* frames.  Frequencies are kept in half-Hz units (twice the value in Hz)  *)
(* so that sampleRate / 2 stays an integer for every sample rate.          *)
(*                                                                         *)
(* The Web Audio objects the code drives (OfflineAudioContext, the         *)
(* AnalyserNode, the decoder) are modelled by what the calls made in       *)
(* src/index.js do to them: suspend() quantizes its time up to a render    *)
(* quantum boundary and rejects a time at or past the end of the timeline  *)
(* or one already scheduled; the analyser blends each new frame with the   *)
(* previous one by smoothingTimeConstant.                                  *)
(***************************************************************************)
EXTENDS Integers, Sequences, FiniteSets, TLC

\* ---------------------------------------------------------------- bounds
RenderQuantum == 3            \* frames per render quantum (128, scaled down)
MaxLength == 10               \* longest audio buffer, in frames
MaxSampleTimeLength == 3      \* largest sampleTimeLength, in frames

Lengths == 0..MaxLength
SampleTimeLengths == 1..MaxSampleTimeLength
SampleRates == {8000, 44100}
FftSizes == {16, 32, 48, 64}
MaxFrequencies == {3000, 22050, 30000}
SmoothingHalves == {0, 1}     \* smoothingTimeConstant 0 and 0.5, in halves
Calls == {1, 2}               \* 1: the call made by getAudioFrequencyData;
                              \* 2: a direct call on the same AudioData

NoAudioData == [length |-> -1]
Undefined == "undefined"
Rejected == -1

VARIABLES
  file,        \* the audio asset behind the path: [length, sampleRate, numberOfChannels]
  opts,        \* the options: [sampleTimeLength, fftSize, maxFrequency, smoothingTimeConstant]
  pc,          \* position of getAudioFrequencyData
  outer,       \* the promise getAudioFrequencyData returns: [state, value]
  audioData,   \* the AudioData instance, NoAudioData until constructed
  work,        \* history: the external operations performed so far
  failure,     \* history: the step of fromFile that failed, "none" if none did
  task,        \* the call whose synchronous body occupies the main thread, 0 if none
  ctx          \* per getFrequencyData call: its offline context, analyser, array, promise

vars == <<file, opts, pc, outer, audioData, work, failure, task, ctx>>

\* --------------------------------------------------------- pure functions

\* analyser.fftSize setter: a power of two in [2^5, 2^15], else IndexSizeError.
ValidFftSize(n) == \E k \in 5..15 : n = 2^k

\* analyser.frequencyBinCount
NativeBinCount(fftSize) == fftSize \div 2

Min(a, b) == IF a <= b THEN a ELSE b

CeilDiv(a, b) == (a + b - 1) \div b

\* Mutant of NumSamples: the quotient rounded up.
NumSamplesCeil(duration, sampleTimeLength) == CeilDiv(duration, sampleTimeLength)

\* Math.floor(duration / sampleTimeLength), both in frames
NumSamples(duration, sampleTimeLength) == duration \div sampleTimeLength

\* Mutant of EffectiveMaxFrequency2: the requested maximum, not clamped.
RequestedMaxFrequency2(sampleRate, maxFrequency) == 2 * maxFrequency

\* Math.min(sampleRate / 2, maxFrequency), in half-Hz
EffectiveMaxFrequency2(sampleRate, maxFrequency) == Min(sampleRate, 2 * maxFrequency)

\* frequencyBandSize = (sampleRate / 2) / analyser.frequencyBinCount, as the
\* fraction num / den of Hz
FrequencyBandSize(sampleRate, fftSize) ==
  [num |-> sampleRate, den |-> 2 * NativeBinCount(fftSize)]

\* Mutant of FrequencyBinCount: the quotient truncated instead of rounded up.
FrequencyBinCountTruncated(sampleRate, fftSize, maxFrequency) ==
  Min(NativeBinCount(fftSize),
      (EffectiveMaxFrequency2(sampleRate, maxFrequency) * NativeBinCount(fftSize))
        \div sampleRate)

\* Math.min(native, Math.ceil(maxFrequency / frequencyBandSize)) with the
\* clamped maxFrequency: (max2 / 2) / (sampleRate / (2 native))
FrequencyBinCount(sampleRate, fftSize, maxFrequency) ==
  Min(NativeBinCount(fftSize),
      CeilDiv(EffectiveMaxFrequency2(sampleRate, maxFrequency) * NativeBinCount(fftSize),
              sampleRate))

\* OfflineAudioContext.suspend(t): t is rounded up to a render quantum boundary
Quantize(t) == CeilDiv(t, RenderQuantum) * RenderQuantum

\* Mutant of SuspendTime: the index counted from one.
SuspendTimeOneBased(sampleTimeLength, frameIndex) == sampleTimeLength * (frameIndex + 1)

\* sampleTimeLength * frameIndex, the time handed to suspend()
SuspendTime(sampleTimeLength, frameIndex) == sampleTimeLength * frameIndex

\* The outcome of suspend(sampleTimeLength * frameIndex) for frameIndex =
\* 0..n-1 in that order: the quantized frame when the suspension is
\* registered, Rejected when the frame is at or past the end of the timeline
\* or already taken by an earlier suspend (the promise rejects, and the
\* then-callback never runs).
SuspendFrames(n, sampleTimeLength, length) ==
  [k \in 1..n |->
     LET q == Quantize(SuspendTime(sampleTimeLength, k - 1))
     IN IF q < length
           /\ \A j \in 1..(k-1) : Quantize(SuspendTime(sampleTimeLength, j - 1)) # q
        THEN q ELSE Rejected]

\* The calls the registration loop and the line after it make, in program
\* order: suspend(sampleTimeLength * frameIndex) for frameIndex = 0..n-1,
\* then startRendering().  An event is <<what, index, time>>.
ScheduleTrace(n, sampleTimeLength) ==
  [k \in 1..(n + 1) |->
     IF k <= n THEN <<"suspend", k - 1, SuspendTime(sampleTimeLength, k - 1)>>
     ELSE <<"startRendering", -1, 0>>]

\* The analyser's raw byte magnitude of bin b for the block ending at
\* position f of the (fixed) signal.
RawMagnitude(f, b) == ((f + 1) * (b + 3)) % 256

\* Time averaging with the last analysis frame; s is smoothingTimeConstant in halves.
Blend(s, old, raw) == (s * old + (2 - s) * raw) \div 2

\* Mutant of FreshAnalyser: one analyser kept across calls, so a call
\* starts from the previous frame another call left behind.
SharedAnalyser(fftSize) ==
  IF \E c \in Calls : ctx[c].smooth # << >>
  THEN ctx[CHOOSE c \in Calls : ctx[c].smooth # << >>].smooth
  ELSE [b \in 1..NativeBinCount(fftSize) |-> 0]

\* The state of a freshly created analyser: no previous frame.
FreshAnalyser(fftSize) == [b \in 1..NativeBinCount(fftSize) |-> 0]

\* new Array(numSamples) filled with new Uint8Array(frequencyBinCount)
NewFrequencyData(numSamples, frequencyBinCount) ==
  [k \in 1..numSamples |-> [b \in 1..frequencyBinCount |-> 0]]

\* ------------------------------------------------------------------ state

IdleCtx ==
  [state |-> "idle",            \* idle | threw | sync | started
   created |-> FALSE,            \* the OfflineAudioContext exists
   numSamples |-> 0,
   frequencyBinCount |-> 0,
   frequencyData |-> << >>,      \* the snapshot array
   suspends |-> << >>,           \* per index: quantized frame or Rejected
   render |-> "unstarted",       \* unstarted | running | suspended | closed
   frame |-> 0,                  \* currentTime of the offline context, in frames
   fired |-> {},                 \* indices whose suspension has been reached
   pending |-> {},               \* indices whose then-callback is queued
   sourceStarted |-> FALSE,
   startFrame |-> 0,             \* the context frame at which the source began to play
   smooth |-> << >>,             \* the analyser's previous frame
   promise |-> "none",           \* none | pending | resolved
   resolveCalls |-> 0,           \* history: calls of resolve
   result |-> Undefined,         \* the FrequencyData passed to resolve
   captured |-> << >>,           \* history: indices in capture order
   trace |-> << >>,              \* history: the call's events <<what, index, time>>
   threw |-> {}]                 \* history: indices whose capture threw

\* The state when getAudioFrequencyData is called with a file and options
\* drawn from the given sets.
InitWith(lengths, sampleTimeLengths, sampleRates, fftSizes, maxFrequencies, smoothings) ==
  /\ file \in [length : lengths, sampleRate : sampleRates, numberOfChannels : {2}]
  /\ opts \in [sampleTimeLength : sampleTimeLengths, fftSize : fftSizes,
               maxFrequency : maxFrequencies, smoothingTimeConstant : smoothings]
  /\ pc = "start"
  /\ outer = [state |-> "pending", value |-> Undefined]
  /\ audioData = NoAudioData
  /\ work = {}
  /\ failure = "none"
  /\ task = 0
  /\ ctx = [c \in Calls |-> IdleCtx]

Init ==
  InitWith(Lengths, SampleTimeLengths, SampleRates, FftSizes, MaxFrequencies,
           SmoothingHalves)

\* ------------------------------------------------- AudioData.fromFile

\* Mutant of Settle: a failed step is swallowed and fromFile goes on.
SettleSwallowed(ok, op, next) ==
  /\ work' = work \cup {<<0, op>>}
  /\ pc' = next
  /\ outer' = outer
  /\ failure' = IF ok THEN failure ELSE op

\* An awaited step of fromFile settles: on success the function goes on to
\* `next`, on failure the rejection propagates through fromFile and through
\* getAudioFrequencyData's await to the caller.
Settle(ok, op, next) ==
  /\ work' = work \cup {<<0, op>>}
  /\ pc' = IF ok THEN next ELSE "done"
  /\ outer' = IF ok THEN outer ELSE [state |-> "rejected", value |-> op]
  /\ failure' = IF ok THEN failure ELSE op

Fetch ==
  /\ pc = "start" /\ task = 0
  /\ \E ok \in BOOLEAN : Settle(ok, "fetch", "fetched")
  /\ UNCHANGED <<file, opts, audioData, task, ctx>>

ArrayBuffer ==
  /\ pc = "fetched" /\ task = 0
  /\ \E ok \in BOOLEAN : Settle(ok, "arrayBuffer", "buffered")
  /\ UNCHANGED <<file, opts, audioData, task, ctx>>

\* new AudioData(audioBuffer)
NewAudioData(audioBuffer) ==
  [length |-> audioBuffer.length,
   duration |-> audioBuffer.length,
   sampleRate |-> audioBuffer.sampleRate,
   numberOfChannels |-> audioBuffer.numberOfChannels]

DecodeAudioData ==
  /\ pc = "buffered" /\ task = 0
  /\ \E ok \in BOOLEAN :
       /\ Settle(ok, "decodeAudioData", "decoded")
       /\ audioData' = IF ok THEN NewAudioData(file) ELSE audioData
  /\ UNCHANGED <<file, opts, task, ctx>>

\* ------------------------------------------------------- FrequencyData

\* Mutant of FrequencyAtBin: the upper edge of the bin.
FrequencyAtBinUpperEdge(r, binIndex) ==
  [num |-> r.minFrequency * r.frequencyBandSize.den
             + r.frequencyBandSize.num * (binIndex + 1),
   den |-> r.frequencyBandSize.den]

\* frequencyAtBin(binIndex) = minFrequency + frequencyBandSize * binIndex,
\* as the fraction num / den of Hz
FrequencyAtBin(r, binIndex) ==
  [num |-> r.minFrequency * r.frequencyBandSize.den
             + r.frequencyBandSize.num * binIndex,
   den |-> r.frequencyBandSize.den]

\* Mutant of TimeAtSample: the index counted from one.
TimeAtSampleOneBased(r, sampleIndex) == (sampleIndex + 1) * r.sampleTimeLength

\* timeAtSample(sampleIndex) = sampleIndex * sampleTimeLength
TimeAtSample(r, sampleIndex) == sampleIndex * r.sampleTimeLength

\* ------------------------------------------- AudioData.getFrequencyData

\* The FrequencyData passed to resolve.  Its data is the frequencyData array
\* itself (ctx[c].frequencyData), not a copy; the constructor is given no
\* duration.
NewFrequencyDataResult(sampleRate, o) ==
  [minFrequency |-> 0,
   maxFrequency |-> EffectiveMaxFrequency2(sampleRate, o.maxFrequency),
   frequencyBandSize |-> FrequencyBandSize(sampleRate, o.fftSize),
   frequencyBinCount |-> FrequencyBinCount(sampleRate, o.fftSize, o.maxFrequency),
   sampleTimeLength |-> o.sampleTimeLength,
   duration |-> Undefined]

\* The context after the synchronous body up to and including
\* offlineContext.startRendering(): every suspend has been requested, the
\* promise exists, the rendering thread may run.
StartedCtx(a, o) ==
  LET n == NumSamples(a.duration, o.sampleTimeLength)
      bins == FrequencyBinCount(a.sampleRate, o.fftSize, o.maxFrequency)
  IN [IdleCtx EXCEPT
        !.state = "sync",
        !.created = TRUE,
        !.numSamples = n,
        !.frequencyBinCount = bins,
        !.frequencyData = NewFrequencyData(n, bins),
        !.suspends = SuspendFrames(n, o.sampleTimeLength, a.length),
        !.render = "running",
        !.smooth = FreshAnalyser(o.fftSize),
        !.trace = ScheduleTrace(n, o.sampleTimeLength),
        !.promise = "pending"]

\* The operations the synchronous body performs before analyser.fftSize is set.
SetupWork(c) == {<<c, "OfflineAudioContext">>, <<c, "createBufferSource">>,
                 <<c, "createAnalyser">>}

\* The operations it performs after a valid fftSize has been set.
ScheduleWork(c, n) ==
  {<<c, "allocate">>, <<c, "startRendering">>}
    \cup (IF n > 0 THEN {<<c, "suspend">>} ELSE {})

\* Mutant of WorkBeforeThrow: the fftSize is set only after the snapshot
\* array has been allocated.
WorkBeforeThrowLate(c) == SetupWork(c) \cup {<<c, "allocate">>}

\* The operations performed when the fftSize setter throws: the exception
\* leaves getFrequencyData at that statement.
WorkBeforeThrow(c) == SetupWork(c)

\* getFrequencyData from its first line to startRendering(), or to the
\* exception the fftSize setter raises.  Call 1 is the one
\* getAudioFrequencyData makes after `await AudioData.fromFile`; an
\* exception there rejects the promise getAudioFrequencyData returned.
GetFrequencyData(c) ==
  /\ task = 0
  /\ audioData # NoAudioData
  /\ ctx[c].state = "idle"
  /\ (c = 1) => (pc = "decoded")
  /\ IF ValidFftSize(opts.fftSize)
     THEN /\ ctx' = [ctx EXCEPT ![c] = StartedCtx(audioData, opts)]
          /\ work' = work \cup SetupWork(c)
                       \cup ScheduleWork(c, NumSamples(audioData.duration,
                                                       opts.sampleTimeLength))
          /\ task' = c
          /\ pc' = IF c = 1 THEN "awaiting" ELSE pc
          /\ outer' = outer
     ELSE /\ ctx' = [ctx EXCEPT ![c].state = "threw", ![c].created = TRUE]
          /\ work' = work \cup WorkBeforeThrow(c)
          /\ task' = task
          /\ pc' = IF c = 1 THEN "done" ELSE pc
          /\ outer' = IF c = 1
                      THEN [state |-> "rejected", value |-> "IndexSizeError"]
                      ELSE outer
  /\ UNCHANGED <<file, opts, audioData, failure>>

\* audioBufferSource.start(), the last statement of the synchronous body.
\* The rendering thread was released by startRendering() and may already
\* have moved.
SourceStart(c) ==
  /\ task = c
  /\ ctx[c].state = "sync"
  /\ ctx' = [ctx EXCEPT ![c].state = "started", ![c].sourceStarted = TRUE,
                          ![c].startFrame = ctx[c].frame,
                          ![c].trace = Append(@, <<"start", -1, ctx[c].frame>>)]
  /\ work' = work \cup {<<c, "start">>}
  /\ task' = 0
  /\ UNCHANGED <<file, opts, pc, outer, audioData, failure>>

\* ------------------------------------------------- the rendering thread

\* Mutant of Due: a suspension already reached counts again.
DueAgain(x) == {i \in 0..(x.numSamples - 1) : x.suspends[i + 1] = x.frame}

\* The indices whose registered suspension is at the current frame and has
\* not been reached yet.
Due(x) == {i \in 0..(x.numSamples - 1) :
             x.suspends[i + 1] = x.frame /\ i \notin x.fired}

\* One step of the offline rendering: pause at a registered frame (the
\* suspend promise resolves and its then-callback is queued), finish at the
\* end of the buffer, or render one quantum.
RenderStep(c) ==
  /\ ctx[c].render = "running"
  /\ LET x == ctx[c]
     IN IF Due(x) # {}
        THEN ctx' = [ctx EXCEPT ![c].render = "suspended",
                                ![c].fired = x.fired \cup Due(x),
                                ![c].pending = x.pending \cup Due(x),
                                ![c].trace = Append(@, <<"pause", CHOOSE i \in Due(x) : TRUE,
                                                         x.frame>>)]
        ELSE IF x.frame >= audioData.length
        THEN ctx' = [ctx EXCEPT ![c].render = "closed"]
        ELSE ctx' = [ctx EXCEPT ![c].frame = x.frame + RenderQuantum]
  /\ UNCHANGED <<file, opts, pc, outer, audioData, work, failure, task>>

\* ------------------------------------------------- the capture callback

\* Mutant of IsLastFrame: the index before the last one taken for the last.
IsLastFrameEarly(frameIndex, numSamples) == frameIndex + 2 = numSamples

\* Mutant of IsLastFrame: the index compared without the + 1.
IsLastFrameOffByOne(frameIndex, numSamples) == frameIndex = numSamples

\* frameIndex + 1 === numSamples
IsLastFrame(frameIndex, numSamples) == frameIndex + 1 = numSamples

\* What analyser.getByteFrequencyData computes at the context's current
\* frame: every native bin, blended with the analyser's previous frame.
Spectrum(x, o) ==
  [b \in 1..NativeBinCount(o.fftSize) |->
     Blend(o.smoothingTimeConstant, x.smooth[b], RawMagnitude(x.frame - x.startFrame, b))]

\* getByteFrequencyData(array): fills the array with the first
\* array.length bins (the array is never longer than the native count).
Filled(array, spectrum) == [b \in 1..Len(array) |-> spectrum[b]]

\* resolve(value): settles a pending promise; a later call changes nothing.
Resolve(x, value) ==
  [x EXCEPT !.promise = "resolved",
            !.result = IF x.promise = "pending" THEN value ELSE x.result,
            !.resolveCalls = x.resolveCalls + 1,
            !.trace = Append(x.trace, <<"resolve", -1, x.frame>>)]

\* Mutant of Captured: resume() is called before getByteFrequencyData.
CapturedAfterResume(x, i, a, o) ==
  LET s == Spectrum(x, o)
      y == [x EXCEPT !.frequencyData[i + 1] = Filled(x.frequencyData[i + 1], s),
                     !.smooth = s,
                     !.captured = Append(x.captured, i),
                     !.pending = x.pending \ {i},
                     !.render = "running",
                     !.trace = x.trace \o << <<"resume", i, x.frame>>,
                                             <<"capture", i, x.frame>> >>]
  IN IF IsLastFrame(i, x.numSamples)
     THEN Resolve(y, NewFrequencyDataResult(a.sampleRate, o))
     ELSE y

\* The callback body when getByteFrequencyData returns normally: the snapshot
\* is written, the context resumed, and the promise resolved on the last index.
Captured(x, i, a, o) ==
  LET s == Spectrum(x, o)
      y == [x EXCEPT !.frequencyData[i + 1] = Filled(x.frequencyData[i + 1], s),
                     !.smooth = s,
                     !.captured = Append(x.captured, i),
                     !.pending = x.pending \ {i},
                     !.render = "running",
                     !.trace = x.trace \o << <<"capture", i, x.frame>>,
                                             <<"resume", i, x.frame>> >>]
  IN IF IsLastFrame(i, x.numSamples)
     THEN Resolve(y, NewFrequencyDataResult(a.sampleRate, o))
     ELSE y

\* The callback body when getByteFrequencyData throws: the callback ends
\* there, resume() and resolve() are not reached, and the exception rejects
\* only the promise that then() returned, which nobody holds.
Thrown(x, i) ==
  [x EXCEPT !.pending = x.pending \ {i}, !.threw = x.threw \cup {i},
            !.trace = Append(x.trace, <<"throw", i, x.frame>>)]

\* The then-callback of suspend(sampleTimeLength * frameIndex), run on the
\* main thread once the rendering has paused there.
\* Mutant of Callback: the context and snapshot array are shared between the
\* calls in flight, so a callback of one call captures into the other's.
CallbackCrossed(c, i) ==
  /\ task = 0
  /\ i \in ctx[c].pending
  /\ LET d == CHOOSE e \in Calls : e # c
     IN IF ctx[d].state = "started" /\ ctx[d].promise = "pending"
        THEN ctx' = [ctx EXCEPT ![c].pending = @ \ {i},
                                ![d] = Captured(@, i, audioData, opts)]
        ELSE ctx' = [ctx EXCEPT ![c] = Captured(@, i, audioData, opts)]
  /\ UNCHANGED <<file, opts, pc, outer, audioData, work, failure, task>>

Callback(c, i) ==
  /\ task = 0
  /\ i \in ctx[c].pending
  /\ \E throws \in BOOLEAN :
       ctx' = [ctx EXCEPT ![c] = IF throws THEN Thrown(@, i)
                                  ELSE Captured(@, i, audioData, opts)]
  /\ UNCHANGED <<file, opts, pc, outer, audioData, work, failure, task>>

\* ------------------------------------------------- getAudioFrequencyData

\* `await audioData.getFrequencyData(...)` continues once that promise is
\* resolved, and the function returns frequencyData.data.
Deliver ==
  /\ pc = "awaiting" /\ task = 0
  /\ ctx[1].promise = "resolved"
  /\ outer' = [state |-> "resolved", value |-> "data"]
  /\ pc' = "done"
  /\ UNCHANGED <<file, opts, audioData, work, failure, task, ctx>>

Next ==
  \/ Fetch
  \/ ArrayBuffer
  \/ DecodeAudioData
  \/ \E c \in Calls : GetFrequencyData(c)
  \/ \E c \in Calls : SourceStart(c)
  \/ \E c \in Calls : RenderStep(c)
  \/ \E c \in Calls : \E i \in 0..MaxLength : Callback(c, i)
  \/ Deliver

Spec == Init /\ [][Next]_vars

\* The event loop runs every queued task and the rendering thread keeps
\* rendering while the context is running.
Fairness ==
  /\ WF_vars(Fetch) /\ WF_vars(ArrayBuffer) /\ WF_vars(DecodeAudioData)
  /\ WF_vars(Deliver)
  /\ \A c \in Calls :
       /\ WF_vars(SourceStart(c))
       /\ WF_vars(RenderStep(c))
       /\ WF_vars(\E i \in 0..MaxLength : Callback(c, i))

\* The scheduling alone: one frequency-axis configuration, every length and
\* every sampleTimeLength.
ScheduleInit ==
  InitWith(Lengths, SampleTimeLengths, {44100}, {32, 48}, {22050}, {1})

ScheduleSpec == ScheduleInit /\ [][Next]_vars

FairSpec == ScheduleInit /\ [][Next]_vars /\ Fairness

\* The frequency axis alone: every sample rate, fftSize and maxFrequency of
\* the wider sets below, on short signals.
AxisSampleRates == {8000, 11025, 44100, 48000}
AxisFftSizes == {16, 32, 2000, 2048}
AxisMaxFrequencies == {1, 3000, 5000, 22050, 24000, 30000}

AxisInit ==
  InitWith({0, 5}, {2}, AxisSampleRates, AxisFftSizes, AxisMaxFrequencies, {1})

AxisSpec == AxisInit /\ [][Next]_vars

\* ------------------------------------------------------ claim vocabulary

\* Snapshot index i of call c has been written by its capture callback.
Written(c, i) == \E k \in 1..Len(ctx[c].captured) : ctx[c].captured[k] = i

\* The suspension of index i of call c was rejected when it was requested.
SuspendRejected(c, i) == ctx[c].suspends[i + 1] = Rejected

\* Call c has got past startRendering().
Scheduled(c) == ctx[c].state \in {"sync", "started"}

\* The analyser of call c has failed at a pause point: a capture threw, or
\* a suspension was rejected.
AnalyzerFailed(c) ==
  \/ ctx[c].threw # {}
  \/ \E i \in 0..(ctx[c].numSamples - 1) : SuspendRejected(c, i)

\* Nothing more will happen in call c: the rendering has finished, or it is
\* paused with no callback left to resume it.
AtRest(c) ==
  /\ ctx[c].state = "started"
  /\ ctx[c].pending = {}
  /\ ctx[c].render \in {"closed", "suspended"}

\* ------------------------------------------------------------------ C1
\* C1: the promise of getFrequencyData is resolved only after every
\* snapshot index 0..numSamples-1 has been written by its capture callback.
C1_ResolvedOnlyWhenAllCaptured ==
  \A c \in Calls :
    ctx[c].promise = "resolved" =>
      \A i \in 0..(ctx[c].numSamples - 1) : Written(c, i)

\* ------------------------------------------------------------------ C2
\* C2: with numSamples = 0 the call completes successfully with an empty
\* snapshot sequence: once its rendering has finished, its promise is
\* resolved (it has not failed and is not left pending).
C2_EmptyRunCompletes ==
  \A c \in Calls :
    (ctx[c].state = "started" /\ ctx[c].numSamples = 0 /\ ctx[c].render = "closed")
      => (ctx[c].promise = "resolved" /\ ctx[c].frequencyData = << >>)

\* ------------------------------------------------------------------ C3
\* C3: if the analyser fails at a pause point, the promise of
\* getFrequencyData is rejected: once the call is at rest it is neither
\* pending nor resolved with a result.
C3_AnalyzerFailureRejects ==
  \A c \in Calls :
    (AnalyzerFailed(c) /\ AtRest(c)) => ctx[c].promise = "rejected"

\* ------------------------------------------------------------------ C4
\* The fftSize is a power of two in [2^5, 2^15].
PowerOfTwoInRange(n) == n \in {32, 64, 128, 256, 512, 1024, 2048, 4096, 8192, 16384, 32768}

DecodingWork == {<<0, "fetch">>, <<0, "arrayBuffer">>, <<0, "decodeAudioData">>}

\* The snapshot work of call c: allocation, suspensions, rendering.
AnalysisWork(c) == {<<c, "allocate">>, <<c, "suspend">>, <<c, "startRendering">>,
                    <<c, "start">>}

\* C4 (as stated): with an invalid fftSize getAudioFrequencyData fails with
\* the invalid-fftSize error before any fetch, decodeAudioData call, offline
\* context construction or suspension registration.
C4_InvalidFftSizeFailsBeforeAnyWork ==
  (outer.state = "rejected" /\ outer.value = "IndexSizeError") =>
    work \cap (DecodingWork \cup {<<1, "OfflineAudioContext">>, <<1, "suspend">>}) = {}

\* C4 (amended): with an invalid fftSize and a successful decode,
\* getAudioFrequencyData is rejected with the invalid-fftSize error as soon
\* as getFrequencyData is entered; by then the fetch, the decode and the
\* offline context construction have happened, but no snapshot array has
\* been allocated, no suspension registered and no rendering started, and
\* none ever is.
C4_InvalidFftSizeFailsBeforeScheduling ==
  ~PowerOfTwoInRange(opts.fftSize) =>
    /\ \A c \in Calls :
         /\ work \cap AnalysisWork(c) = {}
         /\ ctx[c].promise = "none"
         /\ ctx[c].frequencyData = << >>
         /\ ctx[c].created => ctx[c].state = "threw"
    /\ ctx[1].created =>
         /\ outer = [state |-> "rejected", value |-> "IndexSizeError"]
         /\ DecodingWork \cup {<<1, "OfflineAudioContext">>} \subseteq work
    /\ outer.state # "resolved"

C4_Witness ==
  /\ ~PowerOfTwoInRange(opts.fftSize)
  /\ opts.fftSize = 48
  /\ ctx[1].state = "threw"
  /\ outer.state = "rejected"

\* ------------------------------------------------------------------ C5
\* C5: numSamples = floor(duration / sampleTimeLength) from the moment the
\* call is scheduled (so it is fixed before rendering starts and never
\* changes), the snapshot array has exactly that many entries throughout, and
\* so has the delivered result.
C5_SnapshotCountIsFloor ==
  \A c \in Calls :
    Scheduled(c) =>
      /\ ctx[c].numSamples * opts.sampleTimeLength <= audioData.duration
      /\ audioData.duration < (ctx[c].numSamples + 1) * opts.sampleTimeLength
      /\ Len(ctx[c].frequencyData) = ctx[c].numSamples

C5_Witness ==
  /\ ctx[1].promise = "resolved"
  /\ outer.state = "resolved"
  /\ Len(ctx[1].frequencyData) = 3
  /\ audioData.duration = 10 /\ opts.sampleTimeLength = 3

\* ------------------------------------------------------------------ C6
\* C6: captures happen in index order and none is skipped: the k-th capture
\* of a call is the capture of index k-1.
C6_CapturesInOrderNoneSkipped ==
  \A c \in Calls :
    \A k \in 1..Len(ctx[c].captured) :
      /\ ctx[c].captured[k] = k - 1
      /\ k > 1 => (k - 1) * opts.sampleTimeLength > (k - 2) * opts.sampleTimeLength

\* ------------------------------------------------------------------ C7
\* C7: when numSamples >= 1 and the analyser does not fail, a started call
\* completes: every pause is followed by a resume, the promise is eventually
\* resolved, and it is resolved exactly once, by the capture of index
\* numSamples - 1.
C7_CompletesWhenNoFailure ==
  /\ \A c \in Calls :
       (Scheduled(c) /\ ctx[c].numSamples >= 1)
         ~> (ctx[c].promise = "resolved" \/ AnalyzerFailed(c))
  /\ \A c \in Calls :
       (ctx[c].render = "suspended")
         ~> (ctx[c].render # "suspended" \/ AnalyzerFailed(c))
  /\ [](\A c \in Calls :
          /\ ctx[c].resolveCalls <= 1
          /\ ctx[c].promise = "resolved" =>
               /\ ctx[c].resolveCalls = 1
               /\ ctx[c].captured[Len(ctx[c].captured)] = ctx[c].numSamples - 1)

C7_Witness ==
  /\ ctx[1].numSamples = 3
  /\ ~AnalyzerFailed(1)
  /\ ctx[1].promise = "resolved"
  /\ ctx[1].captured = <<0, 1, 2>>
  /\ ctx[1].render = "closed"

\* ------------------------------------------------------------------ C8
\* C8: frequencyBinCount = min(native bin count, ceil(effectiveMaxFrequency /
\* frequencyBandSize)) with frequencyBandSize = (sampleRate / 2) / native bin
\* count, and every snapshot has exactly frequencyBinCount entries; sampleRate
\* 44100, fftSize 2048, maxFrequency 5000 gives 233.
\* With x = effectiveMaxFrequency / frequencyBandSize = eff2 * native /
\* sampleRate, min(native, ceil(x)) is the one k <= native with k - 1 < x and
\* (k >= x or k = native).
C8_BinCountIsClippedCeiling ==
  \A c \in Calls :
    Scheduled(c) =>
      LET native == opts.fftSize \div 2
          sr == audioData.sampleRate
          eff2 == IF sr <= 2 * opts.maxFrequency THEN sr ELSE 2 * opts.maxFrequency
          bins == ctx[c].frequencyBinCount
      IN /\ bins <= native
         /\ (bins - 1) * sr < eff2 * native
         /\ (bins * sr >= eff2 * native) \/ (bins = native)
         /\ \A k \in 1..Len(ctx[c].frequencyData) : Len(ctx[c].frequencyData[k]) = bins
         /\ ctx[c].promise = "resolved" => ctx[c].result.frequencyBinCount = bins
         /\ (sr = 44100 /\ opts.fftSize = 2048 /\ opts.maxFrequency = 5000)
              => bins = 233

C8_Witness ==
  /\ audioData # NoAudioData
  /\ audioData.sampleRate = 44100 /\ opts.fftSize = 2048 /\ opts.maxFrequency = 5000
  /\ ctx[1].promise = "resolved"
  /\ Len(ctx[1].frequencyData) = 2
  /\ Len(ctx[1].frequencyData[1]) = 233 /\ Len(ctx[1].frequencyData[2]) = 233

\* ------------------------------------------------------------------ C9
\* C9: if fetch, arrayBuffer or decodeAudioData fails, getAudioFrequencyData
\* is rejected with that failure and no snapshot work has begun: no AudioData,
\* no offline context, no snapshot array, no suspension.
C9_DecodeFailureAbortsBeforeSnapshotWork ==
  failure # "none" =>
    /\ outer = [state |-> "rejected", value |-> failure]
    /\ pc = "done"
    /\ audioData = NoAudioData
    /\ \A c \in Calls : ctx[c] = IdleCtx
    /\ work \subseteq DecodingWork

C9_Witness ==
  /\ failure = "decodeAudioData"
  /\ outer.state = "rejected"
  /\ <<0, "decodeAudioData">> \in work

\* ----------------------------------------------------------------- C10
\* C10: two invocations of getFrequencyData on the same AudioData with the
\* same configuration yield snapshot sequences of identical length and
\* identical per-bin values, whether the second starts during or after the
\* first.
C10_SameInputSameSnapshots ==
  (ctx[1].promise = "resolved" /\ ctx[2].promise = "resolved") =>
    /\ Len(ctx[1].frequencyData) = Len(ctx[2].frequencyData)
    /\ \A k \in 1..Len(ctx[1].frequencyData) :
         \A b \in 1..Len(ctx[1].frequencyData[k]) :
           ctx[1].frequencyData[k][b] = ctx[2].frequencyData[k][b]
    /\ ctx[1].result = ctx[2].result

C10_Witness ==
  /\ ctx[1].promise = "resolved" /\ ctx[2].promise = "resolved"
  /\ opts.smoothingTimeConstant = 1
  /\ Len(ctx[1].frequencyData) = 3
  /\ ctx[1].frequencyData[3] # ctx[1].frequencyData[2]
  /\ ctx[1].frequencyData[3][1] > 0
  /\ ctx[2].frequencyData = ctx[1].frequencyData

\* ----------------------------------------------------------------- C11
\* C11: for every result, frequencyAtBin(0) = 0 and
\* frequencyAtBin(frequencyBinCount - 1) <= the effective maxFrequency stored
\* in the result (num / den Hz against maxFrequency / 2 Hz).
C11_BinFrequenciesWithinRange ==
  \A c \in Calls :
    ctx[c].promise = "resolved" =>
      LET r == ctx[c].result
          top == FrequencyAtBin(r, r.frequencyBinCount - 1)
      IN /\ FrequencyAtBin(r, 0).num = 0
         /\ 2 * top.num <= r.maxFrequency * top.den

C11_Witness ==
  /\ ctx[1].promise = "resolved"
  /\ audioData.sampleRate = 44100 /\ opts.fftSize = 2048 /\ opts.maxFrequency = 5000
  /\ ctx[1].result.frequencyBinCount = 233
  /\ FrequencyAtBin(ctx[1].result, 232).num = 232 * 44100
  /\ FrequencyAtBin(ctx[1].result, 232).den = 2048

\* ----------------------------------------------------------------- C12
\* C12: the maxFrequency recorded in the result is min(sampleRate / 2,
\* requested maxFrequency) (here in half-Hz: min(sampleRate, 2 * requested)),
\* whether the requested value is below, equal to or above the Nyquist
\* frequency, and minFrequency is 0.
C12_MaxFrequencyIsClamped ==
  \A c \in Calls :
    ctx[c].promise = "resolved" =>
      LET r == ctx[c].result
          sr == audioData.sampleRate
      IN /\ r.minFrequency = 0
         /\ r.maxFrequency <= sr
         /\ r.maxFrequency <= 2 * opts.maxFrequency
         /\ r.maxFrequency = sr \/ r.maxFrequency = 2 * opts.maxFrequency

C12_Witness ==
  /\ ctx[1].promise = "resolved"
  /\ audioData.sampleRate = 44100 /\ opts.maxFrequency = 30000
  /\ ctx[1].result.maxFrequency = 44100
  /\ ctx[1].result.minFrequency = 0

\* ------------------------------------------------------ trace vocabulary

\* The positions of call c's trace holding an event `what` of index i.
EventsAt(c, what, i) ==
  {k \in 1..Len(ctx[c].trace) : ctx[c].trace[k][1] = what /\ ctx[c].trace[k][2] = i}

\* The positions of call c's trace holding an event `what`.
Events(c, what) == {k \in 1..Len(ctx[c].trace) : ctx[c].trace[k][1] = what}

C14_EachSnapshotWrittenOnce ==
  /\ [](\A c \in Calls : \A i \in 0..MaxLength :
          Cardinality(EventsAt(c, "capture", i) \cup EventsAt(c, "throw", i)) <= 1)
  /\ [][\A c \in Calls :
          Scheduled(c) =>
            \A k \in 1..Len(ctx[c].frequencyData) :
              ctx'[c].frequencyData[k] # ctx[c].frequencyData[k] =>
                /\ (k - 1) \in ctx[c].pending
                /\ ctx'[c].captured = Append(ctx[c].captured, k - 1)
                /\ \A j \in 1..Len(ctx[c].frequencyData) :
                     j # k => ctx'[c].frequencyData[j] = ctx[c].frequencyData[j]]_vars

C14_Witness ==
  /\ ctx[1].captured = <<0, 1, 2>>
  /\ ctx[1].promise = "resolved"
  /\ \A k \in 1..3 : ctx[1].frequencyData[k] # [b \in 1..ctx[1].frequencyBinCount |-> 0]
  /\ \A i \in 0..2 : Cardinality(EventsAt(1, "capture", i)) = 1

\* ----------------------------------------------------------------- C15
\* C15: suspend is called for every index 0..numSamples-1 before rendering is
\* started, no suspension is registered after rendering has begun, and the
\* audio source is started before the rendering timeline advances past 0.
C15_RegisteredUpFrontSourceStartedAtZero ==
  \A c \in Calls :
    Scheduled(c) =>
      /\ \A i \in 0..(ctx[c].numSamples - 1) : EventsAt(c, "suspend", i) # {}
      /\ \A k \in Events(c, "suspend") : \A m \in Events(c, "startRendering") : k < m
      /\ ctx[c].sourceStarted => ctx[c].startFrame = 0
      /\ ~ctx[c].sourceStarted => ctx[c].frame = 0

\* ----------------------------------------------------------------- C16
\* The pause, capture, throw and resume events of call c, in order.
PauseCycle(c) ==
  SelectSeq(ctx[c].trace,
            LAMBDA e : e[1] \in {"pause", "capture", "throw", "resume"})

C17_ResultStableOnceDelivered ==
  /\ [](\A c \in Calls :
          ctx[c].promise = "resolved" =>
            /\ ctx[c].pending = {}
            /\ \A i \in 0..(ctx[c].numSamples - 1) :
                 ~SuspendRejected(c, i) => i \in ctx[c].fired)
  /\ [][\A c \in Calls :
          ctx[c].promise = "resolved" =>
            /\ ctx'[c].frequencyData = ctx[c].frequencyData
            /\ ctx'[c].result = ctx[c].result
            /\ ctx'[c].captured = ctx[c].captured
            /\ ctx'[c].promise = "resolved"]_vars

C17_Witness ==
  /\ ctx[1].promise = "resolved"
  /\ ctx[1].numSamples = 3
  /\ ctx[1].render = "closed"
  /\ outer.state = "resolved"

\* ----------------------------------------------------------------- C18
\* C18: the FrequencyData a call resolves with carries every attribute its
\* constructor declares: duration equal to the audio's duration, and
\* minFrequency, maxFrequency, frequencyBandSize, frequencyBinCount and
\* sampleTimeLength as computed from the configuration.
C18_ResultCarriesEveryAttribute ==
  \A c \in Calls :
    ctx[c].promise = "resolved" =>
      LET r == ctx[c].result
      IN /\ r.duration # Undefined
         /\ r.duration = audioData.duration
         /\ r.minFrequency = 0
         /\ r.maxFrequency = EffectiveMaxFrequency2(audioData.sampleRate, opts.maxFrequency)
         /\ r.frequencyBandSize = FrequencyBandSize(audioData.sampleRate, opts.fftSize)
         /\ r.frequencyBinCount = ctx[c].frequencyBinCount
         /\ r.sampleTimeLength = opts.sampleTimeLength

\* ----------------------------------------------------------------- C19
\* C19: every capture offset passed to suspend lies inside the signal: the
\* offsets are those of the indices 0..numSamples-1, each is at least 0 and
\* less than the duration, and no suspension is registered at or beyond the
\* end of the rendering timeline.
C19_OffsetsInsideSignal ==
  \A c \in Calls :
    Scheduled(c) =>
      /\ \A k \in Events(c, "suspend") :
           LET e == ctx[c].trace[k]
           IN /\ e[2] \in 0..(ctx[c].numSamples - 1)
              /\ e[3] = SuspendTime(opts.sampleTimeLength, e[2])
              /\ 0 <= e[3]
              /\ e[3] < audioData.duration
      /\ Cardinality(Events(c, "suspend")) = ctx[c].numSamples
      /\ \A i \in 0..(ctx[c].numSamples - 1) :
           ~SuspendRejected(c, i) => ctx[c].suspends[i + 1] < audioData.length

\* The last offset is the last frame but one of a signal whose length is a
\* multiple of sampleTimeLength.
C19_Witness ==
  /\ Scheduled(1)
  /\ audioData.duration = 9
  /\ opts.sampleTimeLength = 3
  /\ ctx[1].numSamples = 3
  /\ EventsAt(1, "suspend", 2) # {}
  /\ \A k \in EventsAt(1, "suspend", 2) : ctx[1].trace[k][3] = 6

\* ----------------------------------------------------------------- C20
\* Call c's own capture callback ran in this step.
OwnCallbackRan(c) ==
  \E i \in ctx[c].pending : i \notin ctx'[c].pending

\* C20: two calls in flight on the same AudioData do not interfere: a step
\* changes the context of at most one call; a call's snapshot array is
\* written, its rendering resumed and its promise resolved only by its own
\* capture callback; and the AudioData fields are never modified once decoded.
C20_CallsDoNotInterfere ==
  [][/\ audioData # NoAudioData => audioData' = audioData
     /\ \A c \in Calls : \A d \in Calls :
          (c # d /\ ctx'[c] # ctx[c]) => ctx'[d] = ctx[d]
     /\ \A c \in Calls :
          Scheduled(c) =>
            /\ ctx'[c].frequencyData # ctx[c].frequencyData => OwnCallbackRan(c)
            /\ ctx'[c].promise # ctx[c].promise => OwnCallbackRan(c)
            /\ (ctx[c].render = "suspended" /\ ctx'[c].render = "running")
                 => OwnCallbackRan(c)]_vars

\* Both calls in flight with their callbacks interleaved: call 2 has captured
\* two snapshots after call 1 captured its first and before its second.
C20_Witness ==
  /\ ctx[1].promise = "pending"
  /\ ctx[2].promise = "pending"
  /\ ctx[1].numSamples = 3
  /\ ctx[1].captured = <<0>>
  /\ ctx[2].captured = <<0, 1>>
  /\ 1 \in ctx[1].pending
  /\ ctx[1].frequencyData[1] = ctx[2].frequencyData[1]
  /\ ctx[1].frequencyData[2] # ctx[2].frequencyData[2]

====
